---- MODULE Spec2Model ----
(***************************************************************************)
(* Llama-finetuning1.ipynb as a state machine: one "Run all" execution of  *)
(* the notebook, cell by cell and, inside train_with_memory_optimization,  *)
(* call by call.  Every library call may return or raise; the try/except/  *)
(* finally blocks of the notebook decide what happens to a raised          *)
(* exception.                                                              *)
(***************************************************************************)
EXTENDS Integers, Sequences, FiniteSets, TLC

VARIABLES
    pc,                 \* the statement the notebook is about to execute
    exc,                \* the failure that ended the run (NoFailure while running)
    pending,            \* exception in flight while the finally block runs
    env,                \* os.environ["PYTORCH_CUDA_ALLOC_CONF"]
    cudnn,              \* torch.backends.cudnn flags
    stdout,             \* printed messages, in order
    nvml,               \* pynvml: successful nvmlInit calls, nvmlShutdown calls
    raised,             \* every failure raised so far: [at, kind]
    caught,             \* the failures an except clause caught
    model,              \* the local `model`
    tokenizer,          \* the local `tokenizer`
    dataset,            \* the local `dataset` (raw rows)
    tokenized_dataset,  \* the local `tokenized_dataset`
    selected,           \* the index lists handed to select(): [train, eval]
    train_dataset,
    eval_dataset,
    built,              \* training_args / data_collator constructed so far
    trainerObj,         \* the Trainer object: [id, global_step, log_history]
    trainer,            \* the notebook-level name `trainer` (cell 11)
    returned,           \* how train_with_memory_optimization exited
    saved,              \* the directories save_model was called with, in order
    training_losses,    \* cell 13
    steps               \* the pipeline steps started so far, in order

vars == << pc, exc, pending, env, cudnn, stdout, nvml, raised, caught, model,
           tokenizer, dataset, tokenized_dataset, selected, train_dataset,
           eval_dataset, built, trainerObj, trainer, returned, saved,
           training_losses, steps >>

----------------------------------------------------------------------------
(* Bounds of the model *)

\* largest raw dataset the model loads
MaxRows == 5
\* how far the longest text exceeds max_length
MaxExtra == 1

(* Program constants *)

ALLOC_CONF == "expandable_segments:True,max_split_size_mb:128"
max_length == 512
max_steps == 50
logging_steps == 10
eval_steps == 50
FINAL_DIR == "./final_llama2_model"
PARTIAL_DIR == "./partial_model"

----------------------------------------------------------------------------
(* Exceptions.  The kinds a call can raise, and the isinstance tests of    *)
(* the notebook's except clauses.  torch.cuda.OutOfMemoryError is a        *)
(* subclass of RuntimeError; KeyboardInterrupt is a BaseException that is  *)
(* not an Exception; pynvml's NVMLError is a plain Exception.              *)

\* what `import pynvml` raises, what the pynvml calls raise, what the torch,
\* transformers, peft, datasets and matplotlib calls raise
ImportKinds == {"ImportError", "KeyboardInterrupt"}
NvmlKinds == {"NVMLError", "KeyboardInterrupt"}
PipelineKinds == {"RuntimeError", "OutOfMemoryError", "ValueError", "KeyboardInterrupt"}

\* the mutated form of IsRuntimeError: an out-of-memory error not taken for a RuntimeError
IsRuntimeErrorExact(k) == k = "RuntimeError"

\* except RuntimeError as e
IsRuntimeError(k) == k \in {"RuntimeError", "OutOfMemoryError"}

\* except Exception as device_error
IsException(k) == k # "KeyboardInterrupt"

\* the mutated form of IsImportError: the handler catches nothing
IsNoError(k) == FALSE

\* except ImportError
IsImportError(k) == k = "ImportError"

Failure(place, k) == [at |-> place, kind |-> k]
NoFailure == Failure("none", "none")

\* the locals before their assignment
NoTokenizer == [loaded |-> FALSE, bos_token |-> "<s>", eos_token |-> "</s>",
                pad_token |-> "None", padding_side |-> "left",
                add_bos_token |-> FALSE, add_eos_token |-> FALSE]
NoTrainer == [id |-> "none", global_step |-> 0, log_history |-> << >>]

----------------------------------------------------------------------------
Init ==
    /\ pc = "cell3_env"
    /\ exc = NoFailure
    /\ pending = "none"
    /\ env = "unset"
    /\ cudnn = [benchmark |-> "default", deterministic |-> "default"]
    /\ stdout = << >>
    /\ nvml = [inits |-> 0, shutdowns |-> 0]
    /\ raised = {}
    /\ caught = {}
    /\ model = "none"
    /\ tokenizer = NoTokenizer
    /\ dataset = << >>
    /\ tokenized_dataset = << >>
    /\ selected = [train |-> << >>, eval |-> << >>]
    /\ train_dataset = << >>
    /\ eval_dataset = << >>
    /\ built = {}
    /\ trainerObj = NoTrainer
    /\ trainer = "unbound"
    /\ returned = "not_yet"
    /\ saved = << >>
    /\ training_losses = << >>
    /\ steps = << >>

----------------------------------------------------------------------------
(* How a raised exception leaves the notebook *)

\* statements inside the body of train_with_memory_optimization
InFunction(p) == p \notin {"cell3_env", "cell12_print", "cell13_plot", "done", "aborted"}

\* the pipeline step a statement belongs to
StepName(p) ==
    CASE p = "prepare_kbit"   -> "prepare_model_for_kbit_training"
      [] p = "get_peft"       -> "get_peft_model"
      [] p = "create_dataset" -> "create_efficient_dataset"
      [] p = "init_trainer"   -> "Trainer"
      [] p = "train_call"     -> "train"
      [] p = "save_final"     -> "save_model"
      [] p = "save_partial"   -> "save_model"
      [] p = "cell13_plot"    -> "plot"
      [] OTHER                -> p

\* no handler: the exception reaches the caller and "Run all" stops
Propagate(place, k) ==
    /\ pc' = "aborted"
    /\ exc' = Failure(place, k)
    /\ returned' = IF InFunction(pc) THEN "raised" ELSE returned

\* the mutated form of OuterHandler: a bare except that swallows everything
OuterHandlerCatchAll(place, k) ==
    /\ caught' = caught \cup {Failure(place, k)}
    /\ pc' = "nvml_fallback"
    /\ UNCHANGED << exc, returned >>

\* lines 89..118: the outer try of print_gpu_utilization, except ImportError
OuterHandler(place, k) ==
    IF IsImportError(k)
    THEN /\ caught' = caught \cup {Failure(place, k)}
         /\ pc' = "nvml_fallback"
         /\ UNCHANGED << exc, returned >>
    ELSE /\ Propagate(place, k)
         /\ UNCHANGED caught

----------------------------------------------------------------------------
(* Cell 3 *)

Cell3SetupEnv ==
    /\ pc = "cell3_env"
    /\ env' = ALLOC_CONF
    /\ cudnn' = [benchmark |-> "False", deterministic |-> "True"]
    /\ pc' = "optimize_memory"
    /\ UNCHANGED << exc, pending, stdout, nvml, raised, caught, model, tokenizer,
                    dataset, tokenized_dataset, selected, train_dataset,
                    eval_dataset, built, trainerObj, trainer, returned, saved,
                    training_losses, steps >>

----------------------------------------------------------------------------
(* optimize_memory, lines 76..124 *)

\* lines 81..85: empty_cache, reset_peak_memory_stats, set_float32_matmul_precision
ClearCudaCache ==
    /\ pc = "optimize_memory"
    /\ steps' = Append(steps, StepName(pc))
    /\ pc' = "import_pynvml"
    /\ UNCHANGED << exc, pending, env, cudnn, stdout, nvml, raised, caught, model,
                    tokenizer, dataset, tokenized_dataset, selected, train_dataset,
                    eval_dataset, built, trainerObj, trainer, returned, saved,
                    training_losses >>

NvmlFrame == << env, cudnn, model, tokenizer, dataset, tokenized_dataset, selected,
                train_dataset, eval_dataset, built, trainerObj, trainer, saved,
                training_losses, steps >>

\* line 90
ImportPynvml ==
    /\ pc = "import_pynvml"
    /\ pc' = "nvmlInit"
    /\ UNCHANGED << exc, pending, stdout, nvml, raised, caught, returned >>
    /\ UNCHANGED NvmlFrame

ImportPynvmlRaises ==
    /\ pc = "import_pynvml"
    /\ \E k \in ImportKinds :
        /\ raised' = raised \cup {Failure("import_pynvml", k)}
        /\ OuterHandler("import_pynvml", k)
    /\ UNCHANGED << pending, stdout, nvml >>
    /\ UNCHANGED NvmlFrame

\* line 93
NvmlInit ==
    /\ pc = "nvmlInit"
    /\ nvml' = [nvml EXCEPT !.inits = @ + 1]
    /\ pc' = "nvml_query"
    /\ UNCHANGED << exc, pending, stdout, raised, caught, returned >>
    /\ UNCHANGED NvmlFrame

NvmlInitRaises ==
    /\ pc = "nvmlInit"
    /\ \E k \in NvmlKinds :
        /\ raised' = raised \cup {Failure("nvmlInit", k)}
        /\ OuterHandler("nvmlInit", k)
    /\ UNCHANGED << pending, stdout, nvml >>
    /\ UNCHANGED NvmlFrame

\* lines 97..105
NvmlQuery ==
    /\ pc = "nvml_query"
    /\ stdout' = stdout \o << "GPU Total Memory", "GPU Used Memory", "GPU Free Memory" >>
    /\ pc' = "nvmlShutdown"
    /\ UNCHANGED << exc, pending, nvml, raised, caught, returned >>
    /\ UNCHANGED NvmlFrame

\* the mutated form of InnerHandler: the query is not guarded, nor followed by a finally
InnerHandlerMissing(k) ==
    /\ Propagate("nvml_query", k)
    /\ UNCHANGED << caught, stdout, pending >>

\* lines 107..112: except Exception as device_error, then the finally block
InnerHandler(k) ==
    /\ pc' = "nvmlShutdown"
    /\ UNCHANGED << exc, returned >>
    /\ IF IsException(k)
       THEN /\ caught' = caught \cup {Failure("nvml_query", k)}
            /\ stdout' = Append(stdout, "Error getting GPU memory info")
            /\ UNCHANGED pending
       ELSE /\ pending' = k
            /\ UNCHANGED << caught, stdout >>

NvmlQueryRaises ==
    /\ pc = "nvml_query"
    /\ \E k \in NvmlKinds :
        /\ raised' = raised \cup {Failure("nvml_query", k)}
        /\ InnerHandler(k)
    /\ UNCHANGED nvml
    /\ UNCHANGED NvmlFrame

\* lines 110..112: finally; an exception the inner except did not catch resumes
NvmlShutdown ==
    /\ pc = "nvmlShutdown"
    /\ nvml' = [nvml EXCEPT !.shutdowns = @ + 1]
    /\ pending' = "none"
    /\ IF pending = "none"
       THEN /\ pc' = "set_alloc_conf"
            /\ UNCHANGED << exc, caught, returned >>
       ELSE OuterHandler("nvml_query", pending)
    /\ UNCHANGED << stdout, raised >>
    /\ UNCHANGED NvmlFrame

\* nvmlShutdown itself raises: its exception replaces the one in flight
NvmlShutdownRaises ==
    /\ pc = "nvmlShutdown"
    /\ nvml' = [nvml EXCEPT !.shutdowns = @ + 1]
    /\ pending' = "none"
    /\ \E k \in NvmlKinds :
        /\ raised' = raised \cup {Failure("nvmlShutdown", k)}
        /\ OuterHandler("nvmlShutdown", k)
    /\ UNCHANGED stdout
    /\ UNCHANGED NvmlFrame

\* lines 114..118: the PyTorch fallback report
NvmlFallback ==
    /\ pc = "nvml_fallback"
    /\ stdout' = stdout \o << "NVML not available. Using PyTorch memory tracking.",
                              "Allocated GPU Memory", "Cached GPU Memory" >>
    /\ pc' = "set_alloc_conf"
    /\ UNCHANGED << exc, pending, env, cudnn, nvml, raised, caught, model, tokenizer,
                    dataset, tokenized_dataset, selected, train_dataset,
                    eval_dataset, built, trainerObj, trainer, returned, saved,
                    training_losses, steps >>

\* line 124, then optimize_memory returns to line 303
SetAllocConf ==
    /\ pc = "set_alloc_conf"
    /\ env' = ALLOC_CONF
    /\ pc' = "load_model"
    /\ UNCHANGED << exc, pending, cudnn, stdout, nvml, raised, caught, model,
                    tokenizer, dataset, tokenized_dataset, selected, train_dataset,
                    eval_dataset, built, trainerObj, trainer, returned, saved,
                    training_losses, steps >>

----------------------------------------------------------------------------
(* The data path: tokenizer, tokenization, shuffle, split *)

\* a text of n content tokens (what the tokenizer's segmentation yields)
Text(n) == [i \in 1..n |-> "w"]

\* the text lengths of the rows a loaded dataset cycles through
TextLens == << 0, max_length - 3, max_length - 2, max_length - 1,
               max_length + MaxExtra >>

\* load_dataset("imdb", split="train+test"): n rows, texts of the lengths above
Rows(n) ==
    [i \in 1..n |-> [text |-> Text(TextLens[(i % Len(TextLens)) + 1]),
                     label |-> i % 2]]

\* lines 167..178
Tokenizer == [loaded |-> TRUE, bos_token |-> "<s>", eos_token |-> "</s>",
              pad_token |-> "</s>", padding_side |-> "right",
              add_bos_token |-> TRUE, add_eos_token |-> TRUE]

Repeat(x, n) == [i \in 1..n |-> x]

\* truncation=True: the content is cut to what max_length leaves after the special tokens
Truncate(ids, budget) == IF Len(ids) > budget THEN SubSeq(ids, 1, budget) ELSE ids

\* the mutated form of PadTo: padding to the longest of the batch, here a batch of one
PadToLongest(tok, ids, n) == ids

\* padding='max_length', on the side the tokenizer pads
PadTo(tok, ids, n) ==
    IF Len(ids) >= n THEN ids
    ELSE IF tok.padding_side = "right"
         THEN ids \o Repeat(tok.pad_token, n - Len(ids))
         ELSE Repeat(tok.pad_token, n - Len(ids)) \o ids

\* lines 190..197: tokenizer(text, truncation=True, padding='max_length', max_length=...)
Tokenize(tok, text, maxlen) ==
    LET nspecial == (IF tok.add_bos_token THEN 1 ELSE 0)
                    + (IF tok.add_eos_token THEN 1 ELSE 0)
        content  == Truncate(text, maxlen - nspecial)
        ids      == (IF tok.add_bos_token THEN << tok.bos_token >> ELSE << >>)
                    \o content
                    \o (IF tok.add_eos_token THEN << tok.eos_token >> ELSE << >>)
    IN  [input_ids      |-> PadTo(tok, ids, maxlen),
         attention_mask |-> PadTo([tok EXCEPT !.pad_token = "0"],
                                  Repeat("1", Len(ids)), maxlen)]

\* dataset.shuffle(seed=42): a permutation fixed by the seed, one of these
Shuffles(n) ==
    { [i \in 1..n |-> n + 1 - i], [i \in 1..n |-> (i % n) + 1] }

\* lines 200..209: shuffle, then map the tokenizer over the rows, dropping the old columns
TokenizedDataset(ds, perm, tok, maxlen) ==
    [i \in 1..Len(ds) |-> Tokenize(tok, ds[perm[i]].text, maxlen)]

\* int(len(tokenized_dataset)*0.8): the double product, truncated.  The double
\* nearest 0.8 exceeds 0.8 by 2^-54 of its value, less than half an ulp of the
\* exact product, so the result is the integer part of 8n/10 for every list length.
SplitAt(n) == (n * 8) \div 10

\* range(a, b), as the list of its indices
Range(a, b) == [i \in 1..(b - a) |-> a + i - 1]

\* Dataset.select(indices), indices counted from 0
Select(ds, indices) == [i \in 1..Len(indices) |-> ds[indices[i] + 1]]

\* the mutated form of EvalIndices: the eval range starts one row early
EvalIndicesOverlapping(n) == Range(IF SplitAt(n) > 0 THEN SplitAt(n) - 1 ELSE 0, n)

\* line 333
EvalIndices(n) == Range(SplitAt(n), n)

\* line 332
TrainIndices(n) == Range(0, SplitAt(n))

----------------------------------------------------------------------------
(* train_with_memory_optimization, lines 298..380: the calls without a handler *)

DataFrame == << dataset, tokenized_dataset, selected, train_dataset, eval_dataset >>
QuietFrame == << exc, pending, env, cudnn, stdout, nvml, raised, caught, trainer,
                 returned, saved, training_losses >>

\* line 304
LoadModel ==
    /\ pc = "load_model"
    /\ model' = "quantized"
    /\ steps' = Append(steps, StepName(pc))
    /\ pc' = "create_tokenizer"
    /\ UNCHANGED << tokenizer, built, trainerObj >>
    /\ UNCHANGED DataFrame
    /\ UNCHANGED QuietFrame

\* line 305
CreateTokenizer ==
    /\ pc = "create_tokenizer"
    /\ tokenizer' = Tokenizer
    /\ steps' = Append(steps, StepName(pc))
    /\ pc' = "lora_config"
    /\ UNCHANGED << model, built, trainerObj >>
    /\ UNCHANGED DataFrame
    /\ UNCHANGED QuietFrame

\* lines 308..318
BuildLoraConfig ==
    /\ pc = "lora_config"
    /\ built' = built \cup {"peft_config"}
    /\ steps' = Append(steps, StepName(pc))
    /\ pc' = "prepare_kbit"
    /\ UNCHANGED << model, tokenizer, trainerObj >>
    /\ UNCHANGED DataFrame
    /\ UNCHANGED QuietFrame

\* line 321
PrepareKbit ==
    /\ pc = "prepare_kbit"
    /\ model' = "kbit_prepared"
    /\ steps' = Append(steps, StepName(pc))
    /\ pc' = "get_peft"
    /\ UNCHANGED << tokenizer, built, trainerObj >>
    /\ UNCHANGED DataFrame
    /\ UNCHANGED QuietFrame

\* line 322
GetPeftModel ==
    /\ pc = "get_peft"
    /\ model' = "peft"
    /\ steps' = Append(steps, StepName(pc))
    /\ pc' = "load_dataset"
    /\ UNCHANGED << tokenizer, built, trainerObj >>
    /\ UNCHANGED DataFrame
    /\ UNCHANGED QuietFrame

\* line 325; the row counts stand in for the 50000 rows of IMDB
LoadDataset ==
    /\ pc = "load_dataset"
    /\ \E n \in 0..MaxRows : dataset' = Rows(n)
    /\ steps' = Append(steps, StepName(pc))
    /\ pc' = "create_dataset"
    /\ UNCHANGED << model, tokenizer, built, trainerObj, tokenized_dataset, selected,
                    train_dataset, eval_dataset >>
    /\ UNCHANGED QuietFrame

\* lines 326..329
CreateEfficientDataset ==
    /\ pc = "create_dataset"
    /\ \E perm \in Shuffles(Len(dataset)) :
        tokenized_dataset' = TokenizedDataset(dataset, perm, tokenizer, max_length)
    /\ steps' = Append(steps, StepName(pc))
    /\ pc' = "split"
    /\ UNCHANGED << model, tokenizer, built, trainerObj, dataset, selected,
                    train_dataset, eval_dataset >>
    /\ UNCHANGED QuietFrame

\* lines 332..333
SplitDataset ==
    /\ pc = "split"
    /\ selected' = [train |-> TrainIndices(Len(tokenized_dataset)),
                    eval  |-> EvalIndices(Len(tokenized_dataset))]
    /\ train_dataset' = Select(tokenized_dataset, selected'.train)
    /\ eval_dataset' = Select(tokenized_dataset, selected'.eval)
    /\ steps' = Append(steps, StepName(pc))
    /\ pc' = "training_args"
    /\ UNCHANGED << model, tokenizer, built, trainerObj, dataset, tokenized_dataset >>
    /\ UNCHANGED QuietFrame

\* line 336
CreateTrainingArgs ==
    /\ pc = "training_args"
    /\ built' = built \cup {"training_args"}
    /\ steps' = Append(steps, StepName(pc))
    /\ pc' = "data_collator"
    /\ UNCHANGED << model, tokenizer, trainerObj >>
    /\ UNCHANGED DataFrame
    /\ UNCHANGED QuietFrame

\* lines 339..342
CreateDataCollator ==
    /\ pc = "data_collator"
    /\ built' = built \cup {"data_collator"}
    /\ steps' = Append(steps, StepName(pc))
    /\ pc' = "init_trainer"
    /\ UNCHANGED << model, tokenizer, trainerObj >>
    /\ UNCHANGED DataFrame
    /\ UNCHANGED QuietFrame

\* lines 360..367
InitTrainer ==
    /\ pc = "init_trainer"
    /\ trainerObj' = [id |-> "Trainer#1", global_step |-> 0, log_history |-> << >>]
    /\ steps' = Append(steps, StepName(pc))
    /\ pc' = "train_call"
    /\ UNCHANGED << model, tokenizer, built >>
    /\ UNCHANGED DataFrame
    /\ UNCHANGED QuietFrame

----------------------------------------------------------------------------
(* trainer.train(), line 371, under the arguments of lines 222..259 *)

\* logging_strategy="steps", logging_steps=10
ShouldLog(step) == step % logging_steps = 0

\* evaluation_strategy="steps", eval_steps=50
ShouldEvaluate(step) == step % eval_steps = 0

\* the entries the training loop appends to trainer.state.log_history; the value
\* of a loss is named by the step it was measured at
TrainLog(step) == [loss |-> step, grad_norm |-> step, learning_rate |-> step,
                   epoch |-> step, step |-> step]
EvalLog(step) == [eval_loss |-> step, eval_precision |-> step, eval_recall |-> step,
                  eval_f1 |-> step, epoch |-> step, step |-> step]
TrainSummary(step) == [train_loss |-> step, train_runtime |-> step,
                       epoch |-> step, step |-> step]

TrainFrame == << model, tokenizer, built, dataset, tokenized_dataset, selected,
                 train_dataset, eval_dataset, env, cudnn, nvml, pending, trainer,
                 saved, training_losses >>

TrainBegin ==
    /\ pc = "train_call"
    /\ steps' = Append(steps, StepName(pc))
    /\ pc' = "train_loop"
    /\ UNCHANGED << exc, stdout, raised, caught, returned, trainerObj >>
    /\ UNCHANGED TrainFrame

\* one optimizer step, then the logging and evaluation that fall on it
TrainStep ==
    /\ pc = "train_loop"
    /\ trainerObj.global_step < max_steps
    /\ LET step == trainerObj.global_step + 1
       IN  trainerObj' =
             [trainerObj EXCEPT
                !.global_step = step,
                !.log_history = @ \o (IF ShouldLog(step) THEN << TrainLog(step) >> ELSE << >>)
                                  \o (IF ShouldEvaluate(step) THEN << EvalLog(step) >> ELSE << >>)]
    /\ UNCHANGED << pc, exc, stdout, raised, caught, returned, steps >>
    /\ UNCHANGED TrainFrame

\* max_steps=50 reached: the summary is logged and train() returns
TrainReturns ==
    /\ pc = "train_loop"
    /\ trainerObj.global_step >= max_steps
    /\ trainerObj' = [trainerObj EXCEPT
                        !.log_history = Append(@, TrainSummary(trainerObj.global_step))]
    /\ pc' = "save_final"
    /\ UNCHANGED << exc, stdout, raised, caught, returned, steps >>
    /\ UNCHANGED TrainFrame

\* the mutated form of TrainHandler: a handler for any exception
TrainHandlerCatchAll(k) ==
    /\ caught' = caught \cup {Failure("train", k)}
    /\ stdout' = Append(stdout, "Training interrupted")
    /\ pc' = "save_partial"
    /\ UNCHANGED << exc, returned >>

\* lines 370..373: except RuntimeError as e
TrainHandler(k) ==
    IF IsRuntimeError(k)
    THEN /\ caught' = caught \cup {Failure("train", k)}
         /\ stdout' = Append(stdout, "Training interrupted")
         /\ pc' = "save_partial"
         /\ UNCHANGED << exc, returned >>
    ELSE /\ Propagate("train", k)
         /\ UNCHANGED << caught, stdout >>

\* train() raises, before, between or after optimizer steps
TrainRaises ==
    /\ pc = "train_loop"
    /\ \E k \in PipelineKinds :
        /\ raised' = raised \cup {Failure("train", k)}
        /\ TrainHandler(k)
    /\ UNCHANGED << trainerObj, steps >>
    /\ UNCHANGED TrainFrame

SaveFrame == << exc, pending, env, cudnn, stdout, nvml, raised, caught, model,
                tokenizer, built, trainerObj, training_losses >>

\* the mutated form of SavePartial: the handler's return left out
SavePartialFallThrough ==
    /\ pc = "save_partial"
    /\ saved' = Append(saved, PARTIAL_DIR)
    /\ steps' = Append(steps, StepName(pc))
    /\ pc' = "save_final"
    /\ UNCHANGED << trainer, returned >>
    /\ UNCHANGED DataFrame
    /\ UNCHANGED SaveFrame

\* lines 375..376, and the assignment of cell 11
SavePartial ==
    /\ pc = "save_partial"
    /\ saved' = Append(saved, PARTIAL_DIR)
    /\ steps' = Append(steps, StepName(pc))
    /\ returned' = "returned"
    /\ trainer' = trainerObj.id
    /\ pc' = "cell12_print"
    /\ UNCHANGED DataFrame
    /\ UNCHANGED SaveFrame

\* lines 379..380, and the assignment of cell 11
SaveFinal ==
    /\ pc = "save_final"
    /\ saved' = Append(saved, FINAL_DIR)
    /\ steps' = Append(steps, StepName(pc))
    /\ returned' = "returned"
    /\ trainer' = trainerObj.id
    /\ pc' = "cell12_print"
    /\ UNCHANGED DataFrame
    /\ UNCHANGED SaveFrame

----------------------------------------------------------------------------
(* Cells 12 and 13 *)

\* line 405
Cell12PrintHistory ==
    /\ pc = "cell12_print"
    /\ trainer # "unbound"
    /\ stdout' = Append(stdout, "Training Loss History")
    /\ steps' = Append(steps, StepName(pc))
    /\ pc' = "cell13_plot"
    /\ UNCHANGED << exc, pending, env, cudnn, nvml, raised, caught, model, tokenizer,
                    built, trainerObj, trainer, returned, saved, training_losses >>
    /\ UNCHANGED DataFrame

\* the metric an entry reports first
FirstLoss(entry) ==
    IF "loss" \in DOMAIN entry THEN entry.loss
    ELSE IF "eval_loss" \in DOMAIN entry THEN entry.eval_loss
    ELSE entry.train_loss

\* the mutated form of TrainingLosses: every entry's loss, of whatever kind
TrainingLossesUnfiltered(log) == [i \in 1..Len(log) |-> FirstLoss(log[i])]

RECURSIVE LossEntries(_)
\* [entry['loss'] for entry in log if 'loss' in entry]
LossEntries(log) ==
    IF log = << >> THEN << >>
    ELSE (IF "loss" \in DOMAIN Head(log) THEN << Head(log).loss >> ELSE << >>)
         \o LossEntries(Tail(log))

\* line 419
TrainingLosses(log) == LossEntries(log)

\* lines 416..426
Cell13Plot ==
    /\ pc = "cell13_plot"
    /\ trainer # "unbound"
    /\ training_losses' = TrainingLosses(trainerObj.log_history)
    /\ steps' = Append(steps, StepName(pc))
    /\ pc' = "done"
    /\ UNCHANGED << exc, pending, env, cudnn, stdout, nvml, raised, caught, model,
                    tokenizer, built, trainerObj, trainer, returned, saved >>
    /\ UNCHANGED DataFrame

----------------------------------------------------------------------------
(* A call outside every try block raises *)

UnguardedPcs == {"optimize_memory", "load_model", "create_tokenizer", "lora_config",
                 "prepare_kbit", "get_peft", "load_dataset", "create_dataset",
                 "split", "training_args", "data_collator", "init_trainer",
                 "save_final", "save_partial", "cell12_print", "cell13_plot"}

StepRaises ==
    /\ pc \in UnguardedPcs
    /\ \E k \in PipelineKinds :
        /\ raised' = raised \cup {Failure(pc, k)}
        /\ Propagate(pc, k)
    /\ steps' = Append(steps, StepName(pc))
    /\ saved' = IF pc = "save_final" THEN Append(saved, FINAL_DIR)
                ELSE IF pc = "save_partial" THEN Append(saved, PARTIAL_DIR)
                ELSE saved
    /\ UNCHANGED << pending, env, cudnn, stdout, nvml, caught, model, tokenizer,
                    built, trainerObj, trainer, training_losses >>
    /\ UNCHANGED DataFrame

----------------------------------------------------------------------------
Next ==
    \/ Cell3SetupEnv
    \/ ClearCudaCache
    \/ ImportPynvml
    \/ ImportPynvmlRaises
    \/ NvmlInit
    \/ NvmlInitRaises
    \/ NvmlQuery
    \/ NvmlQueryRaises
    \/ NvmlShutdown
    \/ NvmlShutdownRaises
    \/ NvmlFallback
    \/ SetAllocConf
    \/ LoadModel
    \/ CreateTokenizer
    \/ BuildLoraConfig
    \/ PrepareKbit
    \/ GetPeftModel
    \/ LoadDataset
    \/ CreateEfficientDataset
    \/ SplitDataset
    \/ CreateTrainingArgs
    \/ CreateDataCollator
    \/ InitTrainer
    \/ TrainBegin
    \/ TrainStep
    \/ TrainReturns
    \/ TrainRaises
    \/ SavePartial
    \/ SaveFinal
    \/ Cell12PrintHistory
    \/ Cell13Plot
    \/ StepRaises

Spec == Init /\ [][Next]_vars

----------------------------------------------------------------------------
(* Vocabulary of the properties below *)

RuntimeErrorKinds == {"RuntimeError", "OutOfMemoryError"}
GpuReportPlaces == {"import_pynvml", "nvmlInit", "nvml_query", "nvmlShutdown"}
OptimizeMemoryPlaces == GpuReportPlaces \cup {"optimize_memory", "nvml_fallback", "set_alloc_conf"}
Dirs(s) == {s[i] : i \in 1..Len(s)}
TrainRaisedRuntimeError == \E k \in RuntimeErrorKinds : Failure("train", k) \in raised
FunctionExited == returned # "not_yet"
ReturnedTrainer == returned = "returned" /\ trainer = "Trainer#1"
Propagated(f) == pc = "aborted" /\ exc = f /\ f \notin caught

----------------------------------------------------------------------------
\* C1: whenever trainer.train() raised a RuntimeError, the function has saved to
\* ./partial_model and returned the trainer object: it never exits by an exception.
\* Stated for the runs the claim is surest of: some optimizer steps were taken on a
\* non-empty training set, and nobody interrupted the kernel.
C1_RuntimeErrorAlwaysReturnsTrainer ==
    ( /\ TrainRaisedRuntimeError
      /\ FunctionExited
      /\ trainerObj.global_step > 0
      /\ Len(train_dataset) > 0
      /\ \A f \in raised : f.kind # "KeyboardInterrupt" )
        => (ReturnedTrainer /\ saved = << PARTIAL_DIR >>)

----------------------------------------------------------------------------
\* C2 as written: only the handler around trainer.train() ever catches a failure,
\* and a failure raised at any other step has propagated to the caller.
C2_OnlyTrainFailuresAreCaught ==
    /\ \A f \in caught : f.at = "train"
    /\ \A f \in raised : f.at # "train" => Propagated(f)

\* C2, amended: a failure is caught only by the RuntimeError handler around
\* trainer.train(), by the Exception handler around the NVML device query, or by
\* the ImportError handler around the NVML block; a failure raised by any step
\* outside those try statements has propagated to the caller, uncaught.
C2_HandlersAreTrainAndGpuReport ==
    /\ \A f \in caught :
          \/ f.at = "train" /\ f.kind \in RuntimeErrorKinds
          \/ f.at = "nvml_query" /\ f.kind # "KeyboardInterrupt"
          \/ f.at \in GpuReportPlaces /\ f.kind = "ImportError"
    /\ \A f \in raised :
          f.at \notin (GpuReportPlaces \cup {"train"}) => Propagated(f)

\* a device-query failure was swallowed, and a later step's failure ended the run
C2_Witness ==
    /\ Failure("nvml_query", "NVMLError") \in caught
    /\ Failure("import_pynvml", "ImportError") \notin raised
    /\ pc = "aborted"
    /\ exc.at = "load_dataset"

----------------------------------------------------------------------------
\* C3 as written: an out-of-memory failure, at whichever step, has propagated, with
\* no partial model saved and no trainer returned.
C3_OutOfMemoryAlwaysPropagates ==
    \A f \in raised :
        f.kind = "OutOfMemoryError"
            => (Propagated(f) /\ PARTIAL_DIR \notin Dirs(saved) /\ ~ReturnedTrainer)

\* C3, amended: an out-of-memory failure propagates with no recovery at every step
\* but trainer.train(); raised inside trainer.train() it is caught as a RuntimeError,
\* save_model("./partial_model") is called, and the trainer is returned when that
\* save returns (when the save raises, the save's exception propagates).
C3_OutOfMemoryCaughtOnlyInTrain ==
    \A f \in raised :
        f.kind = "OutOfMemoryError" =>
            IF f.at = "train"
            THEN /\ f \in caught
                 /\ \/ pc = "save_partial" /\ saved = << >>
                    \/ saved = << PARTIAL_DIR >> /\ ReturnedTrainer
                    \/ saved = << PARTIAL_DIR >> /\ returned = "raised"
                                                 /\ exc.at = "save_partial"
            ELSE Propagated(f)

\* training ran out of memory after some optimizer steps, and the trainer came back
C3_Witness ==
    /\ Failure("train", "OutOfMemoryError") \in caught
    /\ trainerObj.global_step > 0
    /\ ReturnedTrainer
    /\ saved = << PARTIAL_DIR >>

----------------------------------------------------------------------------
PipelineOrder ==
    << "optimize_memory", "load_model", "create_tokenizer",
       "prepare_model_for_kbit_training", "get_peft_model", "load_dataset",
       "create_efficient_dataset", "split", "training_args", "data_collator",
       "Trainer", "train", "save_model", "plot" >>
IsPipelineStep(s) == \E i \in 1..Len(PipelineOrder) : PipelineOrder[i] = s
PipelineStepsStarted == SelectSeq(steps, IsPipelineStep)

\* C4: the pipeline steps started so far are an initial part of the fixed order,
\* each once: none out of order, none skipped, none repeated.
C4_StepsFollowTheFixedOrder ==
    /\ Len(PipelineStepsStarted) <= Len(PipelineOrder)
    /\ PipelineStepsStarted = SubSeq(PipelineOrder, 1, Len(PipelineStepsStarted))

\* a whole run through the handler's branch: all fourteen steps, partial save included
C4_Witness ==
    /\ pc = "done"
    /\ PipelineStepsStarted = PipelineOrder
    /\ saved = << PARTIAL_DIR >>

----------------------------------------------------------------------------
AllExamples ==
    Dirs(tokenized_dataset) \cup Dirs(train_dataset) \cup Dirs(eval_dataset)
DatasetCreated == "split" \in Dirs(steps) \/ pc = "split"

\* C5: every example of the tokenized dataset and of both partitions holds exactly
\* max_length = 512 tokens, and every row of the source yields one example.
C5_ExamplesHaveMaxLengthTokens ==
    /\ \A e \in AllExamples :
          Len(e.input_ids) = 512 /\ Len(e.attention_mask) = 512
    /\ DatasetCreated => Len(tokenized_dataset) = Len(dataset)

\* texts longer and shorter than max_length were tokenized, and both partitions filled
C5_Witness ==
    /\ pc = "training_args"
    /\ \E i \in 1..Len(dataset) : Len(dataset[i].text) > 512
    /\ \E i \in 1..Len(dataset) : Len(dataset[i].text) = 0
    /\ \E i \in 1..Len(dataset) : Len(dataset[i].text) = 511
    /\ Len(train_dataset) > 0
    /\ Len(eval_dataset) > 0

----------------------------------------------------------------------------
SplitDone == "split" \in Dirs(steps) /\ exc.at # "split"

\* C6: after the split, train_dataset is rows 0 .. floor(0.8 n)-1 of the tokenized
\* (shuffled) dataset and eval_dataset rows floor(0.8 n) .. n-1: the index sets are
\* disjoint, cover 0 .. n-1, and the sizes add up to n.
C6_SplitIsAPartition ==
    SplitDone =>
        LET n   == Len(tokenized_dataset)
            cut == (4 * n) \div 5
        IN  /\ Len(train_dataset) = cut
            /\ Len(eval_dataset) = n - cut
            /\ Dirs(selected.train) = 0..(cut - 1)
            /\ Dirs(selected.eval) = cut..(n - 1)
            /\ Len(selected.train) = cut
            /\ Len(selected.eval) = n - cut
            /\ \A i \in 1..cut : train_dataset[i] = tokenized_dataset[i]
            /\ \A i \in 1..(n - cut) : eval_dataset[i] = tokenized_dataset[cut + i]

\* five rows were split four to one
C6_Witness ==
    /\ SplitDone
    /\ Len(tokenized_dataset) = 5
    /\ Len(train_dataset) = 4
    /\ Len(eval_dataset) = 1

----------------------------------------------------------------------------
TrainCompleted == pc = "save_final" \/ FINAL_DIR \in Dirs(saved)
HasLossKey(entry) == "loss" \in DOMAIN entry
LoggedLosses == SelectSeq(trainerObj.log_history, HasLossKey)

\* C7: after trainer.train() has returned, 50 optimizer steps were taken and the log
\* holds one loss entry for each of the steps 10, 20, 30, 40, 50; the plotted list
\* training_losses is those five losses and nothing else.
C7_OneLossPerLoggingStep ==
    TrainCompleted =>
        /\ trainerObj.global_step = 50
        /\ Len(LoggedLosses) = 5
        /\ \A i \in 1..5 : LoggedLosses[i].step = 10 * i
        /\ pc = "done" =>
              /\ Len(training_losses) = 5
              /\ \A i \in 1..5 : training_losses[i] = LoggedLosses[i].loss

\* the plot cell ran after a complete training
C7_Witness ==
    /\ pc = "done"
    /\ saved = << FINAL_DIR >>
    /\ Len(trainerObj.log_history) > Len(training_losses)

----------------------------------------------------------------------------
\* C8: outside print_gpu_utilization every successful nvmlInit has had its one
\* nvmlShutdown (and inside it at most one is outstanding); a device-query failure
\* that is an Exception was caught and reported, and is not what ended the run.
C8_ShutdownFollowsEveryInit ==
    /\ nvml.shutdowns <= nvml.inits
    /\ nvml.inits <= nvml.shutdowns + 1
    /\ pc \notin GpuReportPlaces => nvml.shutdowns = nvml.inits
    /\ \A f \in raised :
          (f.at = "nvml_query" /\ f.kind # "KeyboardInterrupt") =>
              /\ f \in caught
              /\ \E i \in 1..Len(stdout) : stdout[i] = "Error getting GPU memory info"
              /\ exc # f

\* the query failed, NVML was shut down, and optimize_memory returned
C8_Witness ==
    /\ Failure("nvml_query", "NVMLError") \in raised
    /\ nvml = [inits |-> 1, shutdowns |-> 1]
    /\ pc = "load_model"

----------------------------------------------------------------------------
OptimizeMemoryReturned == "optimize_memory" \in Dirs(steps) /\ pc \notin OptimizeMemoryPlaces
                          /\ exc.at \notin OptimizeMemoryPlaces

----------------------------------------------------------------------------
\* C10: save_model is called at most once; ./final_llama2_model only when train()
\* raised nothing, ./partial_model only when it raised a RuntimeError, and neither
\* when it raised something else.
C10_OneSaveDecidedByTraining ==
    /\ Len(saved) <= 1
    /\ FINAL_DIR \in Dirs(saved) => \A f \in raised : f.at # "train"
    /\ PARTIAL_DIR \in Dirs(saved) => TrainRaisedRuntimeError
    /\ (\E f \in raised : f.at = "train" /\ f.kind \notin RuntimeErrorKinds)
          => saved = << >>

\* the partial save and the final save of two different runs, here the partial one
C10_Witness ==
    /\ saved = << PARTIAL_DIR >>
    /\ Failure("train", "RuntimeError") \in raised
    /\ returned = "returned"

====
